---------------------------- MODULE Spec2Model ----------------------------
(***************************************************************************)
(* A model of the OnlyFiles block filesystem of src/fs.c (first draft in   *)
(* the file, lines 1-712) with the layout of fs.h (src/unnamed/part_005).  *)
(*                                                                         *)
(* The backing file is one variable, disk: superblock, bitmap, inode table *)
(* and the bytes of the data blocks.  Every public operation is one action *)
(* that performs the whole handler; its arguments and results are recorded *)
(* in the variable last.                                                   *)
(*                                                                         *)
(* The capacity constants of fs.h are scaled down (MAX_BLOCKS, MAX_FILES,  *)
(* BLOCK_SIZE, MAX_DIRECT_BLOCKS); MAX_FILENAME and the ten reserved       *)
(* blocks keep their values.  int is 32 bits, little-endian, as on the     *)
(* build target.                                                           *)
(***************************************************************************)
EXTENDS Integers, Sequences, FiniteSets, TLC

VARIABLES
    exists,      \* the backing file exists on the host
    disk,        \* content of the backing file
    disk_fd,     \* fs.c:27  "none" (-1), "open", or "closed" (a stale number)
    is_mounted,  \* fs.c:28
    last         \* the last call: operation, arguments, return value, output

vars == <<exists, disk, disk_fd, is_mounted, last>>

----------------------------------------------------------------------------
(* Capacity, scaled down from fs.h (2560 blocks, 256 inodes, 4096 bytes,   *)
(* 12 direct pointers).                                                    *)
MAX_BLOCKS == 12
MAX_FILES == 2
BLOCK_SIZE == 2
MAX_DIRECT_BLOCKS == 2

(* fs.h:30 *)
MAX_FILENAME == 28
(* fs.c:66,80,83,610: blocks 0..9 are superblock, bitmap and inode table *)
FirstDataBlock == 10

(* The largest and smallest value of a 32-bit int (fs.c:321, int size). *)
INT_MAX == 2147483647
INT_MIN == (-INT_MAX) - 1

Blocks == 0..(MAX_BLOCKS - 1)
DataBlocks == FirstDataBlock..(MAX_BLOCKS - 1)
Slots == 0..(MAX_FILES - 1)
Ptrs == 0..(MAX_DIRECT_BLOCKS - 1)
MaxFileSize == MAX_DIRECT_BLOCKS * BLOCK_SIZE

Min(a, b) == IF a < b THEN a ELSE b

(* a + b in 32-bit int arithmetic with wrap-around, for a, b >= 0. *)
WrapAdd(a, b) ==
    IF a > INT_MAX - b THEN INT_MIN + ((a - (INT_MAX - b)) - 1) ELSE a + b

(* C integer division, truncating toward zero. *)
CDiv(a, b) ==
    IF a >= 0 \/ a % b = 0 THEN a \div b ELSE (a \div b) + 1

----------------------------------------------------------------------------
(* File names are sequences of non-zero characters.  The null pointer is   *)
(* written as the one-character sequence <<0>>, which is no C string.      *)
NullName == <<0>>
(* Names of 27, 28 and 29 characters; each is a prefix of the next. *)
Name27 == [i \in 1..(MAX_FILENAME - 1) |-> 2]
Name28 == [i \in 1..MAX_FILENAME |-> 2]
Name29 == [i \in 1..(MAX_FILENAME + 1) |-> 2]
ValidNames == {Name27, Name28}
InvalidNames == {NullName, <<>>, Name29}
FileNames == ValidNames \cup InvalidNames

(* The check with a limit of 27 characters, leaving room for a terminator. *)
BadFilename_27(filename) ==
    filename = NullName \/ Len(filename) = 0 \/ Len(filename) > 27

(* fs.c:217, 326, 466, 518 *)
BadFilename(filename) ==
    filename = NullName \/ Len(filename) = 0 \/ Len(filename) > 28

----------------------------------------------------------------------------
(* On-disk records, fs.h:71-91. *)
FreeInode == [used |-> FALSE, name |-> <<>>, size |-> 0,
              blocks |-> [j \in Ptrs |-> -1]]

(* fs.c:62-68 *)
FormatSuperblock ==
    [total_blocks |-> MAX_BLOCKS, block_size |-> BLOCK_SIZE,
     free_blocks |-> MAX_BLOCKS - 1 - 1 - 8,
     total_inodes |-> MAX_FILES, free_inodes |-> MAX_FILES]

(* fs.c:75-85.  The array is an uninitialised local; bits 0 and 2..9 are   *)
(* or-ed in, bits 10.. are cleared, and bitmap[1] |= 1 sets bit 8 again,   *)
(* so bit 1 keeps whatever the stack held: garbage1.                       *)
FormatBitmap(garbage1) ==
    [b \in Blocks |-> IF b = 1 THEN garbage1 ELSE b < 10]

(* fs_format leaving the inode table of an existing file as it is. *)
FormatInodes_Kept == disk.inodes

(* fs.c:91-101 *)
FormatInodes == [i \in Slots |-> FreeInode]

(* A new, sparse backing file reads as zeros. *)
ZeroData == [b \in DataBlocks |-> [o \in 0..(BLOCK_SIZE - 1) |-> 0]]

ZeroImage ==
    [sb |-> [total_blocks |-> 0, block_size |-> 0, free_blocks |-> 0,
             total_inodes |-> 0, free_inodes |-> 0],
     bitmap |-> [b \in Blocks |-> FALSE],
     inodes |-> [i \in Slots |-> [FreeInode EXCEPT !.blocks = [j \in Ptrs |-> 0]]],
     data |-> ZeroData]

----------------------------------------------------------------------------
(* The record of the last call: the operation, its arguments (name, size,  *)
(* data pattern; flag is the NULL-ness of the buffer argument, for format  *)
(* the garbage bit, for unmount whether the filesystem was mounted), the   *)
(* value returned and the output buffer.                                   *)
NoOut == <<>>
Call(op, name, size, pat, flag, ret, out) ==
    [op |-> op, name |-> name, size |-> size, pat |-> pat, flag |-> flag,
     ret |-> ret, out |-> out]

----------------------------------------------------------------------------
(* fs_format without the check of line 48. *)
fs_format_unguarded(garbage1) ==
    /\ exists' = TRUE
    /\ disk' = [disk EXCEPT !.sb = [total_blocks |-> MAX_BLOCKS,
                                    block_size |-> BLOCK_SIZE,
                                    free_blocks |-> MAX_BLOCKS - 1 - 1 - 8,
                                    total_inodes |-> MAX_FILES,
                                    free_inodes |-> MAX_FILES],
                            !.bitmap = [b \in Blocks |-> IF b = 1 THEN garbage1 ELSE b < 10],
                            !.inodes = [i \in Slots |->
                                [used |-> FALSE, name |-> <<>>, size |-> 0,
                                 blocks |-> [j \in Ptrs |-> -1]]]]
    /\ disk_fd' = "none"
    /\ is_mounted' = FALSE
    /\ last' = Call("format", <<>>, 0, 0, garbage1, 0, NoOut)

(* fs.c:46-112 *)
fs_format(garbage1) ==
    IF is_mounted
    THEN /\ UNCHANGED <<exists, disk, disk_fd, is_mounted>>
         /\ last' = Call("format", <<>>, 0, 0, FALSE, -1, NoOut)
    ELSE /\ exists' = TRUE
         /\ disk' = [disk EXCEPT !.sb = FormatSuperblock,
                                 !.bitmap = FormatBitmap(garbage1),
                                 !.inodes = FormatInodes]
         /\ disk_fd' = "none"
         /\ is_mounted' = FALSE
         /\ last' = Call("format", <<>>, 0, 0, garbage1, 0, NoOut)

(* The check that also wants the bit of every block of a used inode set. *)
InodeTableValid_Bitmap(d) ==
    \A i \in Slots :
        /\ ~(d.inodes[i].used /\ d.inodes[i].size < 0)
        /\ d.inodes[i].used =>
              \A j \in 0..(MAX_DIRECT_BLOCKS - 1) :
                  d.inodes[i].blocks[j] \in 10..(MAX_BLOCKS - 1)
                    => d.bitmap[d.inodes[i].blocks[j]]

(* fs.c:146-152 *)
InodeTableValid(d) ==
    \A i \in Slots : ~(d.inodes[i].used /\ d.inodes[i].size < 0)

(* The check of an earlier draft: data blocks must be free at mount. *)
ReservedBitsSet_DataFree(d) ==
    \A i \in Blocks : (i < 10) = d.bitmap[i]

(* The check that starts at block 2, the blocks of the inode table. *)
ReservedBitsSet_InodeTable(d) ==
    \A i \in Blocks : ~((i >= 2 /\ i < 10) /\ ~d.bitmap[i])

(* fs.c:167-173 *)
ReservedBitsSet(d) ==
    \A i \in Blocks : ~((i < 10) /\ ~d.bitmap[i])

(* The check without its third comparison. *)
SuperblockValid_NoInodes(d) ==
    ~(d.sb.total_blocks # MAX_BLOCKS \/ d.sb.block_size # BLOCK_SIZE)

(* fs.c:175-179 *)
SuperblockValid(d) ==
    ~(d.sb.total_blocks # MAX_BLOCKS \/ d.sb.block_size # BLOCK_SIZE
      \/ d.sb.total_inodes # MAX_FILES)

(* fs_mount that sets the flag before it validates the image. *)
fs_mount_flag_first ==
    /\ UNCHANGED <<exists, disk>>
    /\ IF is_mounted
       THEN /\ UNCHANGED <<disk_fd, is_mounted>>
            /\ last' = Call("mount", <<>>, 0, 0, FALSE, -1, NoOut)
       ELSE IF ~exists
       THEN /\ disk_fd' = "none"
            /\ UNCHANGED is_mounted
            /\ last' = Call("mount", <<>>, 0, 0, FALSE, -1, NoOut)
       ELSE IF ~InodeTableValid(disk) \/ ~ReservedBitsSet(disk)
               \/ ~SuperblockValid(disk)
       THEN /\ disk_fd' = "closed"
            /\ is_mounted' = TRUE
            /\ last' = Call("mount", <<>>, 0, 0, FALSE, -1, NoOut)
       ELSE /\ disk_fd' = "open"
            /\ is_mounted' = TRUE
            /\ last' = Call("mount", <<>>, 0, 0, FALSE, 0, NoOut)

(* fs.c:125-184 *)
fs_mount ==
    /\ UNCHANGED <<exists, disk>>
    /\ IF is_mounted
       THEN /\ UNCHANGED <<disk_fd, is_mounted>>
            /\ last' = Call("mount", <<>>, 0, 0, FALSE, -1, NoOut)
       ELSE IF ~exists
       THEN /\ disk_fd' = "none"
            /\ UNCHANGED is_mounted
            /\ last' = Call("mount", <<>>, 0, 0, FALSE, -1, NoOut)
       ELSE IF ~InodeTableValid(disk) \/ ~ReservedBitsSet(disk)
               \/ ~SuperblockValid(disk)
       THEN /\ disk_fd' = "closed"
            /\ UNCHANGED is_mounted
            /\ last' = Call("mount", <<>>, 0, 0, FALSE, -1, NoOut)
       ELSE /\ disk_fd' = "open"
            /\ is_mounted' = TRUE
            /\ last' = Call("mount", <<>>, 0, 0, FALSE, 0, NoOut)

(* fs.c:194-198 *)
fs_unmount ==
    /\ is_mounted' = FALSE
    /\ disk_fd' = IF disk_fd = "none" THEN "none" ELSE "closed"
    /\ UNCHANGED <<exists, disk>>
    /\ last' = Call("unmount", <<>>, 0, 0, is_mounted, 0, NoOut)

----------------------------------------------------------------------------
(* Helper functions of fs.c.                                               *)

(* strcmp(inodes[i].name, s) == 0 for a string s of at most 28 characters. *)
(* name[28] has no room for the terminator of a 28-character name, so the  *)
(* comparison runs on into the next field of the record, size; its first   *)
(* byte (the low byte) ends the string only when it is zero.               *)
NameEquals(ino, s) ==
    /\ ino.name = s
    /\ (Len(ino.name) < MAX_FILENAME \/ (ino.size % 256) = 0)

(* fs.c:569-582 *)
find_inode(d, filename) ==
    LET hits == {i \in Slots : d.inodes[i].used /\ NameEquals(d.inodes[i], filename)}
    IN  IF hits = {} THEN -1
        ELSE CHOOSE i \in hits : \A k \in hits : i <= k

(* find_free_inode that always answers with the first slot. *)
find_free_inode_first(d) == 0

(* fs.c:585-599 *)
find_free_inode(d) ==
    LET free == {i \in Slots : ~d.inodes[i].used}
    IN  IF free = {} THEN -1
        ELSE CHOOSE i \in free : \A k \in free : i <= k

(* find_free_block that scans from the end of the disk. *)
find_free_block_last(d) ==
    LET free == {i \in 10..(MAX_BLOCKS - 1) : ~d.bitmap[i]}
    IN  IF free = {} THEN -1
        ELSE CHOOSE i \in free : \A k \in free : i >= k

(* find_free_block that answers with the first data block whenever any    *)
(* data block is free.                                                     *)
find_free_block_first(d) ==
    LET free == {i \in 10..(MAX_BLOCKS - 1) : ~d.bitmap[i]}
    IN  IF free = {} THEN -1 ELSE 10

(* fs.c:602-614, the value returned *)
find_free_block(d) ==
    LET free == {i \in 10..(MAX_BLOCKS - 1) : ~d.bitmap[i]}
    IN  IF free = {} THEN -1
        ELSE CHOOSE i \in free : \A k \in free : i <= k

(* fs.c:616-629, the image after the call *)
FindFreeBlockFix(d) ==
    IF find_free_block(d) = -1 /\ d.sb.free_blocks > 0
    THEN [d EXCEPT !.sb.free_blocks = 0]
    ELSE d

(* mark_block_used that never writes the bitmap back. *)
mark_block_used_lost(d, block_num) == d

(* fs.c:633-649 *)
mark_block_used(d, block_num) ==
    IF block_num < 0 \/ block_num >= MAX_BLOCKS THEN d
    ELSE [d EXCEPT !.bitmap[block_num] = TRUE]

(* mark_block_free that never writes the bitmap back. *)
mark_block_free_lost(d, block_num) == d

(* fs.c:652-672; the handle is open whenever a mounted operation calls it *)
mark_block_free(d, block_num) ==
    IF block_num < 0 \/ block_num >= MAX_BLOCKS THEN d
    ELSE [d EXCEPT !.bitmap[block_num] = FALSE]

(* fs.c:675-684 *)
read_inode(d, inode_num) == d.inodes[inode_num]

(* fs.c:687-700 *)
write_inode(d, inode_num, source) ==
    [d EXCEPT !.inodes[inode_num] = source]

(* The count taken from the superblock instead of the bitmap. *)
FreeInBitmap_Counter(d) == d.sb.free_blocks

(* fs.c:368-373 *)
FreeInBitmap(d) == Cardinality({i \in 10..(MAX_BLOCKS - 1) : ~d.bitmap[i]})

Result(d, ret, out) == [disk |-> d, ret |-> ret, out |-> out]

----------------------------------------------------------------------------
(* fs_create that leaves the pointers of the new inode at zero. *)
Create_ZeroPointers(d, filename) ==
    IF BadFilename(filename) THEN Result(d, -3, NoOut)
    ELSE IF find_inode(d, filename) >= 0 THEN Result(d, -1, NoOut)
    ELSE IF find_free_inode(d) < 0 THEN Result(d, -2, NoOut)
    ELSE
      LET inode_index == find_free_inode(d)
          new_inode == [used |-> TRUE, name |-> filename, size |-> 0,
                        blocks |-> [i \in Ptrs |-> 0]]
          d1 == write_inode(d, inode_index, new_inode)
          d2 == [d1 EXCEPT !.sb.free_inodes = @ - 1]
      IN  Result(d2, 0, NoOut)

(* fs.c:217-258, on a mounted image *)
Create(d, filename) ==
    IF BadFilename(filename) THEN Result(d, -3, NoOut)
    ELSE IF find_inode(d, filename) >= 0 THEN Result(d, -1, NoOut)
    ELSE IF find_free_inode(d) < 0 THEN Result(d, -2, NoOut)
    ELSE
      LET inode_index == find_free_inode(d)
          new_inode == [used |-> TRUE, name |-> filename, size |-> 0,
                        blocks |-> [i \in Ptrs |-> -1]]
          d1 == write_inode(d, inode_index, new_inode)
          d2 == [d1 EXCEPT !.sb.free_inodes = @ - 1]
      IN  Result(d2, 0, NoOut)

(* fs_create without the check of line 213. *)
fs_create_ungated(filename) ==
    /\ UNCHANGED <<exists, disk_fd, is_mounted>>
    /\ LET r == Create(disk, filename)
       IN  /\ disk' = r.disk
           /\ last' = Call("create", filename, 0, 0, FALSE, r.ret, r.out)

(* fs.c:211-258 *)
fs_create(filename) ==
    /\ UNCHANGED <<exists, disk_fd, is_mounted>>
    /\ LET r == IF ~is_mounted THEN Result(disk, -3, NoOut)
                ELSE Create(disk, filename)
       IN  /\ disk' = r.disk
           /\ last' = Call("create", filename, 0, 0, FALSE, r.ret, r.out)

(* fs.c:512-562, on a mounted image *)
RECURSIVE DeleteLoop(_, _, _, _)
DeleteLoop(d, ino, i, blocks_freed) ==
    IF i >= MAX_DIRECT_BLOCKS
    THEN [disk |-> d, ino |-> ino, blocks_freed |-> blocks_freed]
    ELSE IF ino.blocks[i] >= 0
    THEN DeleteLoop(mark_block_free(d, ino.blocks[i]),
                    [ino EXCEPT !.blocks[i] = -1], i + 1, blocks_freed + 1)
    ELSE DeleteLoop(d, ino, i + 1, blocks_freed)

(* fs_delete that does not give the inode back to the counter. *)
Delete_InodeNotCounted(d, filename) ==
    IF BadFilename(filename) THEN Result(d, -2, NoOut)
    ELSE IF find_inode(d, filename) < 0 THEN Result(d, -1, NoOut)
    ELSE
      LET inode_index == find_inode(d, filename)
          l == DeleteLoop(d, read_inode(d, inode_index), 0, 0)
          target_inode == [l.ino EXCEPT !.used = FALSE, !.size = 0]
          d1 == write_inode(l.disk, inode_index, target_inode)
          d2 == [d1 EXCEPT !.sb.free_blocks = @ + l.blocks_freed]
      IN  Result(d2, 0, NoOut)

(* fs.c:518-561, on a mounted image *)
Delete(d, filename) ==
    IF BadFilename(filename) THEN Result(d, -2, NoOut)
    ELSE IF find_inode(d, filename) < 0 THEN Result(d, -1, NoOut)
    ELSE
      LET inode_index == find_inode(d, filename)
          l == DeleteLoop(d, read_inode(d, inode_index), 0, 0)
          target_inode == [l.ino EXCEPT !.used = FALSE, !.size = 0]
          d1 == write_inode(l.disk, inode_index, target_inode)
          d2 == [d1 EXCEPT !.sb.free_blocks = @ + l.blocks_freed,
                           !.sb.free_inodes = @ + 1]
      IN  Result(d2, 0, NoOut)

fs_delete(filename) ==
    /\ UNCHANGED <<exists, disk_fd, is_mounted>>
    /\ LET r == IF ~is_mounted THEN Result(disk, -2, NoOut)
                ELSE Delete(disk, filename)
       IN  /\ disk' = r.disk
           /\ last' = Call("delete", filename, 0, 0, FALSE, r.ret, r.out)

----------------------------------------------------------------------------
(* The caller's data: byte k of the buffer filled with pattern pat.        *)
(* Pattern 0 is the zero-filled buffer.                                    *)
Byte(pat, k) == IF pat = 0 THEN 0 ELSE pat * 4 + k + 1

(* fs.c:344.  size + BLOCK_SIZE - 1 overflows int for sizes near INT_MAX,  *)
(* which is undefined: the sum either wraps around or the compiler keeps   *)
(* the exact value of the expression.                                      *)
NumBlocksOutcomes(size) ==
    IF size > INT_MAX - (BLOCK_SIZE - 1)
    THEN {CDiv(WrapAdd(size, BLOCK_SIZE - 1), BLOCK_SIZE),
          (size \div BLOCK_SIZE) + (((size % BLOCK_SIZE) + BLOCK_SIZE - 1) \div BLOCK_SIZE)}
    ELSE {CDiv(size + BLOCK_SIZE - 1, BLOCK_SIZE)}

(* The count of old blocks left at zero. *)
OldBlocksUsed_Zero(ino) == 0

(* The count that takes every pointer for a block. *)
OldBlocksUsed_All(ino) == MAX_DIRECT_BLOCKS

(* fs.c:352-357 *)
OldBlocksUsed(ino) == Cardinality({j \in Ptrs : ino.blocks[j] # -1})

(* fs.c:386-392 *)
RECURSIVE FreeExisting(_, _, _)
FreeExisting(d, ino, j) ==
    IF j >= MAX_DIRECT_BLOCKS THEN [disk |-> d, ino |-> ino]
    ELSE IF ino.blocks[j] # -1
    THEN FreeExisting(mark_block_free(d, ino.blocks[j]),
                      [ino EXCEPT !.blocks[j] = -1], j + 1)
    ELSE FreeExisting(d, ino, j + 1)

(* fs.c:421-431 *)
WriteBlock(d, b, i, num_blocks, size, pat) ==
    LET bytes_to_write ==
            IF i = num_blocks - 1 /\ size % BLOCK_SIZE # 0
            THEN size % BLOCK_SIZE ELSE BLOCK_SIZE
    IN  [d EXCEPT !.data[b] =
            [o \in 0..(BLOCK_SIZE - 1) |->
                IF o < bytes_to_write THEN Byte(pat, i * BLOCK_SIZE + o)
                ELSE @[o]]]

(* The failure path that leaves the inode on disk as it was. *)
PersistPartial_InodeLost(d, inode_index, ino, sb) ==
    [FindFreeBlockFix(d) EXCEPT !.sb = sb]

(* The failure path that also resets the size of the file. *)
PersistPartial_SizeReset(d, inode_index, ino, sb) ==
    write_inode([FindFreeBlockFix(d) EXCEPT !.sb = sb], inode_index,
                [ino EXCEPT !.size = 0])

(* fs.c:405-415: find_free_block found nothing (and may have corrected the *)
(* superblock on disk); the handler's superblock and the inode with the    *)
(* blocks acquired so far are written back.                                *)
PersistPartial(d, inode_index, ino, sb) ==
    write_inode([FindFreeBlockFix(d) EXCEPT !.sb = sb], inode_index, ino)

(* fs.c:401-446: the allocation loop and the final persist.  sb is the     *)
(* handler's local copy of the superblock.                                 *)
RECURSIVE AllocLoop(_, _, _, _, _, _, _, _)
AllocLoop(d, inode_index, ino, sb, i, num_blocks, size, pat) ==
    IF i >= num_blocks
    THEN LET target_inode == [ino EXCEPT !.used = TRUE, !.size = size]
             d1 == write_inode(d, inode_index, target_inode)
         IN  Result([d1 EXCEPT !.sb = sb], 0, NoOut)
    ELSE LET index_block == find_free_block(d)
         IN  IF index_block < 0
             THEN Result(PersistPartial(d, inode_index, ino, sb), -2, NoOut)
             ELSE LET ino1 == [ino EXCEPT !.blocks[i] = index_block]
                      d1 == mark_block_used(d, index_block)
                      sb1 == [sb EXCEPT !.free_blocks = @ - 1]
                      d2 == WriteBlock(d1, index_block, i, num_blocks, size, pat)
                  IN  AllocLoop(d2, inode_index, ino1, sb1, i + 1,
                                num_blocks, size, pat)

(* fs.c:321-447, on a mounted image; num_blocks is the value of line 344 *)
Write(d, filename, data_null, size, pat, num_blocks) ==
    IF BadFilename(filename) THEN Result(d, -3, NoOut)
    ELSE IF data_null \/ size < 0 THEN Result(d, -3, NoOut)
    ELSE IF find_inode(d, filename) < 0 THEN Result(d, -1, NoOut)
    ELSE IF num_blocks > MAX_DIRECT_BLOCKS THEN Result(d, -2, NoOut)
    ELSE
      LET inode_index == find_inode(d, filename)
          target_inode == read_inode(d, inode_index)
          old_blocks_used == OldBlocksUsed(target_inode)
          free_in_bitmap == FreeInBitmap(d)
          d1 == IF free_in_bitmap < d.sb.free_blocks
                THEN [d EXCEPT !.sb.free_blocks = free_in_bitmap] ELSE d
      IN  IF num_blocks > d1.sb.free_blocks + old_blocks_used
          THEN Result(d1, -2, NoOut)
          ELSE LET f == FreeExisting(d1, target_inode, 0)
                   sb == [d1.sb EXCEPT !.free_blocks = @ + old_blocks_used]
                   d2 == [f.disk EXCEPT !.sb = sb]
               IN  AllocLoop(d2, inode_index, f.ino, sb, 0, num_blocks, size, pat)

fs_write(filename, data_null, size, pat) ==
    /\ UNCHANGED <<exists, disk_fd, is_mounted>>
    /\ \E num_blocks \in NumBlocksOutcomes(size) :
         LET r == IF ~is_mounted THEN Result(disk, -3, NoOut)
                  ELSE Write(disk, filename, data_null, size, pat, num_blocks)
         IN  /\ disk' = r.disk
             /\ last' = Call("write", filename, size, pat, data_null, r.ret, r.out)

(* A byte of block b as read() returns it; the bytes of the metadata       *)
(* blocks are not modelled and read as -2.                                 *)
BlockByte(d, b, o) == IF b \in DataBlocks THEN d.data[b][o] ELSE -2

(* A caller's buffer of cap bytes before the call: every byte untouched. *)
Untouched == -1
FreshBuffer(cap) == [k \in 1..cap |-> Untouched]

(* fs.c:489-500 *)
RECURSIVE ReadLoop(_, _, _, _, _, _)
ReadLoop(d, ino, buffer, i, bytes_read, size) ==
    IF ~(i < MAX_DIRECT_BLOCKS /\ bytes_read < size)
    THEN [ret |-> bytes_read, out |-> buffer]
    ELSE IF ino.blocks[i] # -1
    THEN LET bytes_to_read == IF size - bytes_read < BLOCK_SIZE
                              THEN size - bytes_read ELSE BLOCK_SIZE
             buffer1 == [k \in 1..Len(buffer) |->
                           IF k > bytes_read /\ k <= bytes_read + bytes_to_read
                           THEN BlockByte(d, ino.blocks[i], k - bytes_read - 1)
                           ELSE buffer[k]]
         IN  ReadLoop(d, ino, buffer1, i + 1, bytes_read + bytes_to_read, size)
    ELSE ReadLoop(d, ino, buffer, i + 1, bytes_read, size)

(* fs_read that reads the size asked for, whatever the size of the file. *)
Read_NoClamp(d, filename, buffer_null, size) ==
    IF BadFilename(filename) THEN Result(d, -3, NoOut)
    ELSE IF buffer_null \/ size < 0 THEN Result(d, -3, NoOut)
    ELSE IF find_inode(d, filename) < 0 THEN Result(d, -1, FreshBuffer(size))
    ELSE
      LET target_inode == read_inode(d, find_inode(d, filename))
          r == ReadLoop(d, target_inode, FreshBuffer(size), 0, 0, size)
      IN  Result(d, r.ret, r.out)

(* fs.c:461-501, on a mounted image *)
Read(d, filename, buffer_null, size) ==
    IF BadFilename(filename) THEN Result(d, -3, NoOut)
    ELSE IF buffer_null \/ size < 0 THEN Result(d, -3, NoOut)
    ELSE IF find_inode(d, filename) < 0 THEN Result(d, -1, FreshBuffer(size))
    ELSE
      LET target_inode == read_inode(d, find_inode(d, filename))
          size1 == IF size > target_inode.size THEN target_inode.size ELSE size
          r == ReadLoop(d, target_inode, FreshBuffer(size), 0, 0, size1)
      IN  Result(d, r.ret, r.out)

fs_read(filename, buffer_null, size) ==
    /\ UNCHANGED <<exists, disk_fd, is_mounted>>
    /\ LET r == IF ~is_mounted THEN Result(disk, -3, NoOut)
                ELSE Read(disk, filename, buffer_null, size)
       IN  /\ disk' = r.disk
           /\ last' = Call("read", filename, size, 0, buffer_null, r.ret, r.out)

(* fs.c:289-304 *)
RECURSIVE ListLoop(_, _, _, _)
ListLoop(d, filenames, i, max_files) ==
    IF ~(i < MAX_FILES /\ Len(filenames) < max_files) THEN filenames
    ELSE LET ino == d.inodes[i]
             found == \E j \in 1..Len(filenames) : NameEquals(ino, filenames[j])
         IN  IF ino.used /\ ~found
             THEN ListLoop(d, Append(filenames,
                               SubSeq(ino.name, 1, Min(Len(ino.name), MAX_FILENAME - 1))),
                           i + 1, max_files)
             ELSE ListLoop(d, filenames, i + 1, max_files)

(* fs_list without the upper limit on max_files. *)
List_NoUpperLimit(d, filenames_null, max_files) ==
    IF filenames_null \/ max_files <= 0
    THEN Result(d, -1, NoOut)
    ELSE LET out == ListLoop(d, <<>>, 0, max_files)
         IN  Result(d, Len(out), out)

(* fs.c:271-307, on a mounted image *)
List(d, filenames_null, max_files) ==
    IF filenames_null \/ max_files <= 0 \/ max_files > MAX_FILES
    THEN Result(d, -1, NoOut)
    ELSE LET out == ListLoop(d, <<>>, 0, max_files)
         IN  Result(d, Len(out), out)

fs_list(filenames_null, max_files) ==
    /\ UNCHANGED <<exists, disk_fd, is_mounted>>
    /\ LET r == IF ~is_mounted THEN Result(disk, -1, NoOut)
                ELSE List(disk, filenames_null, max_files)
       IN  /\ disk' = r.disk
           /\ last' = Call("list", <<>>, max_files, 0, filenames_null, r.ret, r.out)

(* fs.c:703-712 *)
get_free_blocks ==
    /\ UNCHANGED <<exists, disk, disk_fd, is_mounted>>
    /\ last' = Call("get_free_blocks", <<>>, 0, 0, FALSE,
                    IF ~is_mounted \/ disk_fd = "none" THEN -1
                    ELSE disk.sb.free_blocks, NoOut)

----------------------------------------------------------------------------
(* The arguments the operations are called with. *)
WriteSizes == {0, 1, BLOCK_SIZE + 1, MaxFileSize, MaxFileSize + 1, INT_MAX}
ReadSizes == {0, 1, MaxFileSize + 1}

(* <<filename, data is NULL, size, pattern>>: every valid name with every  *)
(* size, and each invalid argument once; the data are zeros.               *)
WriteArgs ==
    {<<n, FALSE, s, 0>> : n \in ValidNames, s \in WriteSizes}
    \cup {<<n, FALSE, 1, 0>> : n \in InvalidNames}
    \cup {<<Name27, FALSE, -1, 0>>, <<Name27, TRUE, 1, 0>>}

(* <<filename, buffer is NULL, size>> *)
ReadArgs ==
    {<<n, FALSE, s>> : n \in ValidNames, s \in ReadSizes}
    \cup {<<n, FALSE, 1>> : n \in InvalidNames}
    \cup {<<Name27, FALSE, -1>>, <<Name27, TRUE, 1>>}

(* <<array is NULL, max_files>> *)
ListArgs ==
    {<<FALSE, m>> : m \in {0, 1, MAX_FILES, MAX_FILES + 1}}
    \cup {<<TRUE, 1>>}

----------------------------------------------------------------------------
Init ==
    /\ exists = FALSE
    /\ disk = ZeroImage
    /\ disk_fd = "none"
    /\ is_mounted = FALSE
    /\ last = Call("init", <<>>, 0, 0, FALSE, 0, NoOut)

NextWith(W, R) ==
    \/ \E garbage1 \in BOOLEAN : fs_format(garbage1)
    \/ fs_mount
    \/ fs_unmount
    \/ \E filename \in FileNames : fs_create(filename)
    \/ \E filename \in FileNames : fs_delete(filename)
    \/ \E a \in W : fs_write(a[1], a[2], a[3], a[4])
    \/ \E a \in R : fs_read(a[1], a[2], a[3])
    \/ \E a \in ListArgs : fs_list(a[1], a[2])
    \/ get_free_blocks

Next == NextWith(WriteArgs, ReadArgs)

Spec == Init /\ [][Next]_vars

----------------------------------------------------------------------------
(* The same program with callers that write data: a buffer of distinct,    *)
(* non-zero bytes, on fewer sizes.                                         *)
DataWriteArgs ==
    {<<n, FALSE, s, 1>> : n \in ValidNames, s \in {0, 1, BLOCK_SIZE + 1}}
DataReadArgs ==
    {<<n, FALSE, s>> : n \in ValidNames, s \in {1, MaxFileSize + 1}}

NextData == NextWith(DataWriteArgs, DataReadArgs)

SpecData == Init /\ [][NextData]_vars

----------------------------------------------------------------------------
(* The same program with callers that use three valid names, of 1, 27 and  *)
(* 28 characters, more names than there are inodes, and write one size.    *)
Name1 == [i \in 1..1 |-> 2]
ManyNames == {Name1} \cup FileNames
NamesWriteArgs == {<<n, FALSE, 1, 0>> : n \in ManyNames}
NamesReadArgs == {<<n, FALSE, 1>> : n \in ManyNames}

NextNames ==
    \/ \E garbage1 \in BOOLEAN : fs_format(garbage1)
    \/ fs_mount
    \/ fs_unmount
    \/ \E filename \in ManyNames : fs_create(filename)
    \/ \E filename \in ManyNames : fs_delete(filename)
    \/ \E a \in NamesWriteArgs : fs_write(a[1], a[2], a[3], a[4])
    \/ \E a \in NamesReadArgs : fs_read(a[1], a[2], a[3])
    \/ \E a \in ListArgs : fs_list(a[1], a[2])
    \/ get_free_blocks

SpecNames == Init /\ [][NextNames]_vars

----------------------------------------------------------------------------
(* The same program with callers that write a different buffer to each     *)
(* file, so that the bytes of one file can be told from the bytes of the   *)
(* other.                                                                  *)
TwoNames == {Name1, Name27}

TwoWriteArgs ==
    {<<Name27, FALSE, s, 1>> : s \in {1, BLOCK_SIZE + 1}}
    \cup {<<Name1, FALSE, s, 2>> : s \in {1, BLOCK_SIZE + 1}}

NextTwo ==
    \/ \E garbage1 \in BOOLEAN : fs_format(garbage1)
    \/ fs_mount
    \/ fs_unmount
    \/ \E filename \in TwoNames : fs_create(filename)
    \/ \E filename \in TwoNames : fs_delete(filename)
    \/ \E a \in TwoWriteArgs : fs_write(a[1], a[2], a[3], a[4])
    \/ \E filename \in TwoNames : fs_read(filename, FALSE, BLOCK_SIZE + 1)
    \/ fs_list(FALSE, MAX_FILES)
    \/ get_free_blocks

SpecTwo == Init /\ [][NextTwo]_vars

----------------------------------------------------------------------------
(* The same program when the process can end inside fs_write or fs_delete, *)
(* between two of their writes to the backing file.  The images below are  *)
(* what the file holds right after a bitmap write and before the inode     *)
(* write that follows it; a new process starts unmounted with no handle.   *)

(* fs.c:386-392: the image after each mark_block_free of fs_write *)
RECURSIVE FreeExistingSteps(_, _, _)
FreeExistingSteps(d, ino, j) ==
    IF j >= MAX_DIRECT_BLOCKS THEN {}
    ELSE IF ino.blocks[j] # -1
    THEN LET d1 == mark_block_free(d, ino.blocks[j])
         IN  {d1} \cup FreeExistingSteps(d1, ino, j + 1)
    ELSE FreeExistingSteps(d, ino, j + 1)

(* fs.c:401-431: the image after each mark_block_used of fs_write *)
RECURSIVE AllocLoopSteps(_, _, _, _, _)
AllocLoopSteps(d, i, num_blocks, size, pat) ==
    IF i >= num_blocks THEN {}
    ELSE LET index_block == find_free_block(d)
         IN  IF index_block < 0 THEN {}
             ELSE LET d1 == mark_block_used(d, index_block)
                      d2 == WriteBlock(d1, index_block, i, num_blocks, size, pat)
                  IN  {d1} \cup AllocLoopSteps(d2, i + 1, num_blocks, size, pat)

(* fs.c:535-541: the image after each mark_block_free of fs_delete *)
RECURSIVE DeleteLoopSteps(_, _, _)
DeleteLoopSteps(d, ino, i) ==
    IF i >= MAX_DIRECT_BLOCKS THEN {}
    ELSE IF ino.blocks[i] >= 0
    THEN LET d1 == mark_block_free(d, ino.blocks[i])
         IN  {d1} \cup DeleteLoopSteps(d1, ino, i + 1)
    ELSE DeleteLoopSteps(d, ino, i + 1)

(* fs.c:321-384: fs_write up to its last check; ok when every check passed *)
WriteStart(d, filename, size, num_blocks) ==
    LET inode_index == find_inode(d, filename)
        target_inode == read_inode(d, inode_index)
        free_in_bitmap == FreeInBitmap(d)
        d1 == IF free_in_bitmap < d.sb.free_blocks
              THEN [d EXCEPT !.sb.free_blocks = free_in_bitmap] ELSE d
    IN  IF BadFilename(filename) \/ size < 0 \/ inode_index < 0
           \/ num_blocks > MAX_DIRECT_BLOCKS
        THEN [ok |-> FALSE, disk |-> d, ino |-> FreeInode]
        ELSE [ok |-> num_blocks <= d1.sb.free_blocks + OldBlocksUsed(target_inode),
              disk |-> d1, ino |-> target_inode]

(* The process ends; the next one starts with the statics of fs.c:27-28. *)
Restart(op, filename, size, pat) ==
    /\ is_mounted' = FALSE
    /\ disk_fd' = "none"
    /\ UNCHANGED exists
    /\ last' = Call(op, filename, size, pat, FALSE, 0, NoOut)

crash_write_free(filename, size, pat) ==
    /\ is_mounted
    /\ \E num_blocks \in NumBlocksOutcomes(size) :
         LET w == WriteStart(disk, filename, size, num_blocks)
         IN  /\ w.ok
             /\ disk' \in FreeExistingSteps(w.disk, w.ino, 0)
    /\ Restart("crash_write_free", filename, size, pat)

crash_write_alloc(filename, size, pat) ==
    /\ is_mounted
    /\ \E num_blocks \in NumBlocksOutcomes(size) :
         LET w == WriteStart(disk, filename, size, num_blocks)
             f == FreeExisting(w.disk, w.ino, 0)
             sb == [w.disk.sb EXCEPT !.free_blocks = @ + OldBlocksUsed(w.ino)]
         IN  /\ w.ok
             /\ disk' \in AllocLoopSteps([f.disk EXCEPT !.sb = sb], 0,
                                         num_blocks, size, pat)
    /\ Restart("crash_write_alloc", filename, size, pat)

crash_delete(filename) ==
    /\ is_mounted
    /\ ~BadFilename(filename)
    /\ find_inode(disk, filename) >= 0
    /\ disk' \in DeleteLoopSteps(disk, read_inode(disk, find_inode(disk, filename)), 0)
    /\ Restart("crash_delete", filename, 0, 0)

(* The callers write zeros: one block or two. *)
CrashWriteArgs == {<<n, FALSE, s, 0>> : n \in TwoNames, s \in {1, BLOCK_SIZE + 1}}

NextCrash ==
    \/ \E garbage1 \in BOOLEAN : fs_format(garbage1)
    \/ fs_mount
    \/ fs_unmount
    \/ \E filename \in TwoNames : fs_create(filename)
    \/ \E filename \in TwoNames : fs_delete(filename)
    \/ \E a \in CrashWriteArgs : fs_write(a[1], a[2], a[3], a[4])
    \/ \E filename \in TwoNames : fs_read(filename, FALSE, BLOCK_SIZE + 1)
    \/ fs_list(FALSE, MAX_FILES)
    \/ get_free_blocks
    \/ \E a \in CrashWriteArgs : crash_write_free(a[1], a[3], a[4])
    \/ \E a \in CrashWriteArgs : crash_write_alloc(a[1], a[3], a[4])
    \/ \E filename \in TwoNames : crash_delete(filename)

SpecCrash == Init /\ [][NextCrash]_vars

----------------------------------------------------------------------------
(* The same program started on a backing file that already exists and was  *)
(* not necessarily written by fs_format: images with one fault each, and   *)
(* images whose counters disagree with the bitmap.                         *)
Formatted ==
    [sb |-> FormatSuperblock, bitmap |-> FormatBitmap(TRUE),
     inodes |-> FormatInodes, data |-> ZeroData]

(* One file, Name27, of one byte in block 10. *)
OneFile ==
    [Formatted EXCEPT
        !.sb.free_blocks = @ - 1, !.sb.free_inodes = @ - 1,
        !.bitmap[10] = TRUE,
        !.inodes[0] = [used |-> TRUE, name |-> Name27, size |-> 1,
                       blocks |-> [j \in Ptrs |-> IF j = 0 THEN 10 ELSE -1]]]

InitImages ==
    { ZeroImage, Formatted, OneFile,
      [Formatted EXCEPT !.sb.total_blocks = @ + 1],
      [Formatted EXCEPT !.sb.block_size = @ - 1],
      [Formatted EXCEPT !.sb.total_inodes = 0],
      [Formatted EXCEPT !.bitmap[1] = FALSE],
      [Formatted EXCEPT !.bitmap[9] = FALSE],
      [OneFile EXCEPT !.inodes[0].size = -1],
      [Formatted EXCEPT !.inodes[0].size = -1],
      [OneFile EXCEPT !.sb.free_blocks = @ + 1],
      [OneFile EXCEPT !.sb.free_blocks = 0],
      [OneFile EXCEPT !.bitmap = [b \in Blocks |-> TRUE]] }

InitImg ==
    /\ exists = TRUE
    /\ disk \in InitImages
    /\ disk_fd = "none"
    /\ is_mounted = FALSE
    /\ last = Call("init", <<>>, 0, 0, FALSE, 0, NoOut)

SpecImg == InitImg /\ [][Next]_vars

----------------------------------------------------------------------------
(* The same program, writing data, started on images that mount accepts    *)
(* although an inode and the bitmap disagree: a pointer to a block whose   *)
(* bit is clear, the same block in two pointers, a block nobody owns, and  *)
(* a counter above the bitmap's count.                                     *)
FullBitmap == [b \in Blocks |-> TRUE]

(* Name27 of one byte points to block 10, whose bit is clear; every other  *)
(* data block is set and owned by nobody.                                  *)
PhantomPointer ==
    [OneFile EXCEPT !.bitmap = [FullBitmap EXCEPT ![10] = FALSE],
                    !.sb.free_blocks = 1]

(* Name27 holds block 10 in its first two pointers; the disk is full. *)
DoublePointer ==
    [OneFile EXCEPT !.bitmap = FullBitmap,
                    !.sb.free_blocks = 0,
                    !.inodes[0].blocks =
                        [j \in Ptrs |-> IF j <= 1 THEN 10 ELSE -1]]

(* An empty file that points to a block whose bit is clear. *)
EmptyWithPointer ==
    [PhantomPointer EXCEPT !.inodes[0].size = 0]

(* An empty file whose pointers name a block of the inode table and a     *)
(* block past the end of the disk; one data block, 11, is free.            *)
WildPointers ==
    [OneFile EXCEPT !.bitmap = [FullBitmap EXCEPT ![11] = FALSE],
                    !.sb.free_blocks = 1,
                    !.inodes[0].size = 0,
                    !.inodes[0].blocks =
                        [j \in Ptrs |-> IF j = 0 THEN 5
                                        ELSE IF j = 1 THEN MAX_BLOCKS ELSE -1]]

PartialImages ==
    { Formatted, OneFile, PhantomPointer, DoublePointer, EmptyWithPointer,
      WildPointers, [OneFile EXCEPT !.sb.free_blocks = @ + 1] }

InitPartial ==
    /\ exists = TRUE
    /\ disk \in PartialImages
    /\ disk_fd = "none"
    /\ is_mounted = FALSE
    /\ last = Call("init", <<>>, 0, 0, FALSE, 0, NoOut)

SpecPartial == InitPartial /\ [][NextData]_vars

----------------------------------------------------------------------------
(* Properties.                                                             *)

(* The bytes a caller passed to the last write. *)
DataOf(call) == [k \in 1..call.size |-> Byte(call.pat, k - 1)]

(* C1: a write that returned 0, followed at once by a read of the same     *)
(* file with the same size, makes the read return that size and fill the   *)
(* buffer with the bytes written.                                          *)
C1_WriteReadRoundTrip ==
    [][(/\ last.op = "write" /\ last.ret = 0
        /\ last.size <= MaxFileSize
        /\ last'.op = "read" /\ ~last'.flag
        /\ last'.name = last.name /\ last'.size = last.size)
       => (last'.ret = last.size /\ last'.out = DataOf(last))]_vars

(* Everything a caller can observe of a mounted image: the list, every     *)
(* file's content and the free-block count.                                *)
Observable(d) ==
    [list |-> List(d, FALSE, MAX_FILES),
     reads |-> [n \in ValidNames |->
                  LET r == Read(d, n, FALSE, MaxFileSize + 1)
                  IN  <<r.ret, r.out>>],
     free |-> d.sb.free_blocks]

GateCode(op) ==
    CASE op = "create" -> -3 [] op = "write" -> -3 [] op = "read" -> -3
      [] op = "delete" -> -2 [] op = "list" -> -1 [] op = "get_free_blocks" -> -1

FileOps == {"create", "write", "read", "delete", "list", "get_free_blocks"}

(* C3: while nothing is mounted, every file operation returns its refusal  *)
(* code and leaves the disk image as it is.                                *)
C3_MountGate ==
    [][(~is_mounted /\ last'.op \in FileOps)
       => (last'.ret = GateCode(last'.op) /\ disk' = disk /\ ~is_mounted')]_vars

C3_Witness ==
    /\ ~is_mounted /\ exists
    /\ last.op = "write" /\ last.ret = -3
    /\ ~BadFilename(last.name) /\ ~last.flag /\ last.size >= 0
    /\ find_inode(disk, last.name) >= 0

(* C4: a mount that directly follows a format that returned 0 returns 0    *)
(* and sets the mounted flag.                                              *)
C4_FormattedImageMounts ==
    [][(last.op = "format" /\ last.ret = 0 /\ last'.op = "mount")
       => (last'.ret = 0 /\ is_mounted')]_vars

(* C5: after a format that returned 0, the bits of blocks 0..9 are set and *)
(* the bits of blocks 10..MAX_BLOCKS-1 are clear.                          *)
C5_FormatBitmap ==
    (last.op = "format" /\ last.ret = 0)
    => \A b \in Blocks : disk.bitmap[b] = (b <= 9)

(* C6: after a format that returned 0 the superblock holds the capacity    *)
(* constants and full free counters, and every inode is unused, of size 0, *)
(* with an empty name and all pointers -1.                                 *)
C6_FormatResetsMetadata ==
    (last.op = "format" /\ last.ret = 0)
    => /\ disk.sb.total_blocks = MAX_BLOCKS
       /\ disk.sb.block_size = BLOCK_SIZE
       /\ disk.sb.total_inodes = MAX_FILES
       /\ disk.sb.free_blocks = MAX_BLOCKS - 10
       /\ disk.sb.free_inodes = MAX_FILES
       /\ \A i \in Slots :
            /\ ~disk.inodes[i].used
            /\ disk.inodes[i].size = 0
            /\ disk.inodes[i].name = <<>>
            /\ \A j \in Ptrs : disk.inodes[i].blocks[j] = -1

(* The formatted file still carries the data of files written before. *)
C6_Witness ==
    /\ last.op = "format" /\ last.ret = 0
    /\ disk.data # ZeroData

(* C7: while mounted, format and mount return -1 and change neither the    *)
(* mounted flag, nor the handle, nor the backing file.                     *)
C7_SingleMount ==
    [][(is_mounted /\ last'.op \in {"format", "mount"})
       => (/\ last'.ret = -1 /\ is_mounted' /\ disk_fd' = disk_fd
           /\ disk' = disk /\ exists' = exists)]_vars

C7_Witness ==
    /\ is_mounted /\ disk_fd = "open"
    /\ last.op = "format" /\ last.ret = -1
    /\ \E i \in Slots : disk.inodes[i].used

(* What the specification requires of an image for mount to accept it. *)
ImageAcceptable(d) ==
    /\ d.sb.total_blocks = MAX_BLOCKS
    /\ d.sb.block_size = BLOCK_SIZE
    /\ d.sb.total_inodes = MAX_FILES
    /\ \A b \in 0..9 : d.bitmap[b]
    /\ \A i \in Slots : d.inodes[i].used => d.inodes[i].size >= 0

(* C8: while unmounted, mount of an existing image returns 0 and sets the  *)
(* mounted flag exactly when the image is acceptable, returns -1 and       *)
(* leaves the flag false otherwise, and never writes to the image.         *)
C8_MountValidation ==
    [][(~is_mounted /\ exists /\ last'.op = "mount")
       => /\ disk' = disk
          /\ IF ImageAcceptable(disk)
             THEN last'.ret = 0 /\ is_mounted'
             ELSE last'.ret = -1 /\ ~is_mounted']_vars

C8_Witness ==
    /\ last.op = "mount" /\ last.ret = -1 /\ exists /\ ~is_mounted
    /\ \E i \in Slots : disk.inodes[i].used /\ disk.inodes[i].size < 0

(* The pointers of used inodes that hold block b. *)
Owners(d, b) ==
    {ij \in Slots \X Ptrs : d.inodes[ij[1]].used /\ d.inodes[ij[1]].blocks[ij[2]] = b}

(* C9: every set bitmap bit of the data range is referenced by exactly one *)
(* pointer of one used inode.                                              *)
C9_NoOrphans ==
    exists =>
      \A b \in DataBlocks : disk.bitmap[b] => Cardinality(Owners(disk, b)) = 1

(* A write refused for lack of space, on a full disk. *)
C9_Witness ==
    /\ is_mounted /\ last.op = "write" /\ last.ret = -2
    /\ last.size <= MaxFileSize
    /\ \A b \in DataBlocks : disk.bitmap[b]

(* C10: every pointer of a used inode that is not -1 lies in the data      *)
(* range, has its bitmap bit set, and occurs in no other pointer.          *)
C10_ValidUnsharedPointers ==
    exists =>
      \A i \in Slots : \A j \in Ptrs :
        (disk.inodes[i].used /\ disk.inodes[i].blocks[j] # -1)
        => /\ disk.inodes[i].blocks[j] \in DataBlocks
           /\ disk.bitmap[disk.inodes[i].blocks[j]]
           /\ Owners(disk, disk.inodes[i].blocks[j]) = {<<i, j>>}

(* Two files that each hold a block. *)
C10_Witness ==
    /\ is_mounted
    /\ \E i, k \in Slots :
         /\ i # k
         /\ disk.inodes[i].used /\ disk.inodes[k].used
         /\ \E j \in Ptrs : disk.inodes[i].blocks[j] # -1
         /\ \E j \in Ptrs : disk.inodes[k].blocks[j] # -1

(* The used inodes of an image. *)
UsedSlots(d) == {i \in Slots : d.inodes[i].used}

(* C11: no two used inodes hold the same name, and no used inode holds an  *)
(* empty name.                                                             *)
C11_NameUniqueness ==
    exists =>
      /\ \A i \in UsedSlots(disk) : disk.inodes[i].name # <<>>
      /\ \A i, k \in UsedSlots(disk) :
            disk.inodes[i].name = disk.inodes[k].name => i = k

(* C12: the superblock's free_blocks is the number of clear bitmap bits of *)
(* the data range, and get_free_blocks, while mounted, returns that number.*)
C12_FreeBlockCounter ==
    /\ exists => disk.sb.free_blocks =
                    Cardinality({b \in DataBlocks : ~disk.bitmap[b]})
    /\ (is_mounted /\ last.op = "get_free_blocks")
         => last.ret = Cardinality({b \in DataBlocks : ~disk.bitmap[b]})

(* get_free_blocks answers on a disk where files hold blocks. *)
C12_Witness ==
    /\ is_mounted /\ last.op = "get_free_blocks"
    /\ last.ret >= 0 /\ last.ret < MAX_BLOCKS - FirstDataBlock
    /\ \E i \in UsedSlots(disk) : disk.inodes[i].size > 0

(* C13: the superblock's free_inodes is the number of unused inodes. *)
C13_FreeInodeCounter ==
    exists => disk.sb.free_inodes = Cardinality(Slots \ UsedSlots(disk))

(* A delete that left another file behind. *)
C13_Witness ==
    /\ is_mounted /\ last.op = "delete" /\ last.ret = 0
    /\ UsedSlots(disk) # {}

(* The number of blocks that size bytes need, as a mathematical integer. *)
BlocksNeeded(size) ==
    (size \div BLOCK_SIZE) + (IF size % BLOCK_SIZE = 0 THEN 0 ELSE 1)

(* C14: every used inode has a size from 0 to MAX_DIRECT_BLOCKS *          *)
(* BLOCK_SIZE and holds exactly ceil(size / BLOCK_SIZE) pointers that are  *)
(* not -1.                                                                 *)
C14_SizeMatchesAllocation ==
    exists =>
      \A i \in UsedSlots(disk) :
        /\ disk.inodes[i].size >= 0
        /\ disk.inodes[i].size <= MaxFileSize
        /\ Cardinality({j \in Ptrs : disk.inodes[i].blocks[j] # -1})
             = BlocksNeeded(disk.inodes[i].size)

(* The name is held by a used inode: the file was created and has not been *)
(* deleted since.                                                          *)
Holds(d, filename) == \E i \in UsedSlots(d) : d.inodes[i].name = filename

(* C15: while a file exists, create of its name returns -1, and write,     *)
(* read and delete of its name with valid arguments do not return -1       *)
(* (file not found).                                                       *)
C15_CreatedFileStaysReachable ==
    [][(is_mounted /\ Holds(disk, last'.name))
       => /\ (last'.op = "create") => last'.ret = -1
          /\ (last'.op \in {"write", "read"} /\ ~last'.flag /\ last'.size >= 0)
                => last'.ret # -1
          /\ (last'.op = "delete") => last'.ret # -1]_vars

(* C16: create of a name that a used inode holds returns -1 and leaves the *)
(* image as it is, also when no inode is free.                             *)
C16_CreateDuplicate ==
    [][(is_mounted /\ last'.op = "create" /\ Holds(disk, last'.name))
       => (last'.ret = -1 /\ disk' = disk)]_vars

(* C17: create of a valid name that no used inode holds returns 0 and adds *)
(* the file while an inode is free, and returns -2 and changes nothing     *)
(* when every inode is used; create returns -2 in no other case.           *)
C17_InodeExhaustion ==
    [][(is_mounted /\ last'.op = "create")
       => /\ (~BadFilename(last'.name) /\ ~Holds(disk, last'.name))
               => IF UsedSlots(disk) # Slots
                  THEN /\ last'.ret = 0
                       /\ Holds(disk', last'.name)
                       /\ Cardinality(UsedSlots(disk'))
                            = Cardinality(UsedSlots(disk)) + 1
                  ELSE last'.ret = -2 /\ disk' = disk
          /\ last'.ret = -2 => (UsedSlots(disk) = Slots /\ disk' = disk)]_vars

(* A new name refused on a table filled with distinct names. *)
C17_Witness ==
    /\ is_mounted /\ last.op = "create" /\ last.ret = -2
    /\ ~Holds(disk, last.name)
    /\ UsedSlots(disk) = Slots
    /\ \A i, k \in Slots : disk.inodes[i].name = disk.inodes[k].name => i = k

(* The names the interface accepts: 1 to 28 characters. *)
NameInRange(filename) ==
    filename # NullName /\ Len(filename) >= 1 /\ Len(filename) <= 28

(* C18: while mounted, create returns -3 and changes nothing for a null    *)
(* name, an empty name and a name of 29 or more characters, never returns  *)
(* -3 for a name of 1..28 characters, and creates a new name of 28         *)
(* characters with return 0 when an inode is free.                         *)
C18_NameLengthBoundary ==
    [][(is_mounted /\ last'.op = "create")
       => /\ ~NameInRange(last'.name) => (last'.ret = -3 /\ disk' = disk)
          /\ NameInRange(last'.name) => last'.ret # -3
          /\ (Len(last'.name) = 28 /\ ~Holds(disk, last'.name)
              /\ UsedSlots(disk) # Slots)
               => (last'.ret = 0 /\ Holds(disk', last'.name))]_vars

(* A file with a name of 28 characters was created next to another file. *)
C18_Witness ==
    /\ is_mounted /\ last.op = "create" /\ last.ret = 0
    /\ Len(last.name) = 28 /\ Holds(disk, last.name)
    /\ \E i \in UsedSlots(disk) : Len(disk.inodes[i].name) < 28

(* The number of blocks that the used inode i holds. *)
BlocksHeld(d, i) == Cardinality({j \in Ptrs : d.inodes[i].blocks[j] # -1})

(* C19: a write to an existing file of exactly MAX_DIRECT_BLOCKS *         *)
(* BLOCK_SIZE bytes returns 0 when the free blocks and the file's own      *)
(* blocks suffice, and a write of any larger size returns -2 and leaves    *)
(* the image as it is.                                                     *)
C19_MaximumFileSize ==
    [][(is_mounted /\ last'.op = "write" /\ ~last'.flag
        /\ Holds(disk, last'.name))
       => /\ last'.size > MaxFileSize => (last'.ret = -2 /\ disk' = disk)
          /\ (/\ last'.size = MaxFileSize
              /\ \A i \in UsedSlots(disk) :
                    disk.inodes[i].name = last'.name
                    => disk.sb.free_blocks + BlocksHeld(disk, i)
                         >= MAX_DIRECT_BLOCKS)
               => (/\ last'.ret = 0
                   /\ \E i \in UsedSlots(disk') :
                        /\ disk'.inodes[i].name = last'.name
                        /\ disk'.inodes[i].size = MaxFileSize)]_vars

(* C20: a write that needs more blocks than free_blocks plus the blocks    *)
(* the file holds returns -2 and leaves every inode and every data block   *)
(* as it is.                                                               *)
C20_OutOfSpace ==
    [][(/\ is_mounted /\ last'.op = "write" /\ ~last'.flag /\ last'.size >= 0
        /\ \E i \in UsedSlots(disk) :
             /\ disk.inodes[i].name = last'.name
             /\ BlocksNeeded(last'.size)
                  > disk.sb.free_blocks + BlocksHeld(disk, i))
       => (/\ last'.ret = -2
           /\ disk'.inodes = disk.inodes
           /\ disk'.data = disk.data)]_vars

(* C21: after a write of n bytes that returned 0 the file has size n,      *)
(* holds exactly ceil(n / BLOCK_SIZE) blocks, and free_blocks is what it   *)
(* was plus the blocks the file held before minus ceil(n / BLOCK_SIZE).    *)
C21_OverwriteReclaims ==
    [][(is_mounted /\ last'.op = "write" /\ last'.ret = 0)
       => \E i \in UsedSlots(disk) :
            /\ disk.inodes[i].name = last'.name
            /\ disk'.inodes[i].used
            /\ disk'.inodes[i].name = last'.name
            /\ disk'.inodes[i].size = last'.size
            /\ BlocksHeld(disk', i) = BlocksNeeded(last'.size)
            /\ disk'.sb.free_blocks =
                 disk.sb.free_blocks + BlocksHeld(disk, i)
                   - BlocksNeeded(last'.size)]_vars

(* The content of the file in slot i: the first size bytes of its blocks,  *)
(* in pointer order, as the last successful write stored them.             *)
FileContent(d, i) ==
    [k \in 1..d.inodes[i].size |->
        LET b == d.inodes[i].blocks[(k - 1) \div BLOCK_SIZE]
        IN  BlockByte(d, b, (k - 1) % BLOCK_SIZE)]

(* C22: a read of k >= 0 bytes of an existing file of size s returns       *)
(* min(k, s), stores the first min(k, s) bytes of the file's content in    *)
(* the buffer and leaves the rest of the buffer untouched.                 *)
C22_ReadClamps ==
    [][(is_mounted /\ last'.op = "read" /\ ~last'.flag /\ last'.size >= 0
        /\ Holds(disk, last'.name))
       => \E i \in UsedSlots(disk) :
            /\ disk.inodes[i].name = last'.name
            /\ last'.ret = Min(last'.size, disk.inodes[i].size)
            /\ last'.out =
                 [k \in 1..last'.size |->
                    IF k <= Min(last'.size, disk.inodes[i].size)
                    THEN FileContent(disk, i)[k] ELSE Untouched]]_vars

(* C23: delete of an existing file returns 0, clears the bitmap bit of     *)
(* every block the file held, leaves its inode unused with size 0 and all  *)
(* pointers -1, adds the blocks to free_blocks and one to free_inodes; a   *)
(* delete of the same name right after returns -1 and a create returns 0.  *)
C23_Delete ==
    [][/\ (is_mounted /\ last'.op = "delete" /\ Holds(disk, last'.name))
          => /\ last'.ret = 0
             /\ \E i \in UsedSlots(disk) :
                  /\ disk.inodes[i].name = last'.name
                  /\ ~disk'.inodes[i].used
                  /\ disk'.inodes[i].size = 0
                  /\ \A j \in Ptrs : disk'.inodes[i].blocks[j] = -1
                  /\ \A j \in Ptrs :
                        disk.inodes[i].blocks[j] \in DataBlocks
                        => ~disk'.bitmap[disk.inodes[i].blocks[j]]
                  /\ disk'.sb.free_blocks =
                        disk.sb.free_blocks + BlocksHeld(disk, i)
                  /\ disk'.sb.free_inodes = disk.sb.free_inodes + 1
       /\ (/\ is_mounted /\ last.op = "delete" /\ last.ret = 0
           /\ last'.name = last.name)
          => /\ last'.op = "delete" => last'.ret = -1
             /\ last'.op = "create" => last'.ret = 0]_vars

(* C24: while mounted, list with 1 <= max <= MAX_FILES returns the smaller *)
(* of max and the number of existing files.                                *)
C24_ListCount ==
    [][(is_mounted /\ last'.op = "list" /\ ~last'.flag
        /\ last'.size >= 1 /\ last'.size <= MAX_FILES)
       => last'.ret = Min(last'.size, Cardinality(UsedSlots(disk)))]_vars

(* The names of the used inodes from slot i on, in ascending slot order. *)
RECURSIVE NamesFrom(_, _)
NamesFrom(d, i) ==
    IF i >= MAX_FILES THEN <<>>
    ELSE IF d.inodes[i].used THEN <<d.inodes[i].name>> \o NamesFrom(d, i + 1)
    ELSE NamesFrom(d, i + 1)

(* C25: list emits the names of the existing files in ascending slot       *)
(* order, each equal to the name the file was created with, and a create   *)
(* that returns 0 takes the lowest free slot.                              *)
C25_ListOrder ==
    [][/\ (is_mounted /\ last'.op = "list" /\ ~last'.flag
           /\ last'.size >= 1 /\ last'.size <= MAX_FILES)
          => last'.out =
               SubSeq(NamesFrom(disk, 0), 1,
                      Min(last'.size, Len(NamesFrom(disk, 0))))
       /\ (is_mounted /\ last'.op = "create" /\ last'.ret = 0)
          => \E i \in Slots \ UsedSlots(disk) :
               /\ \A k \in Slots \ UsedSlots(disk) : i <= k
               /\ disk'.inodes[i].used
               /\ disk'.inodes[i].name = last'.name]_vars

(* The last call's arguments are invalid for its operation. *)
InvalidCall(call) ==
    \/ call.op \in {"create", "write", "read", "delete"}
         /\ ~NameInRange(call.name)
    \/ call.op \in {"write", "read"} /\ (call.flag \/ call.size < 0)
    \/ call.op = "list"
         /\ (call.flag \/ call.size < 1 \/ call.size > MAX_FILES)

(* The code each operation returns for an invalid argument. *)
OtherCode(op) ==
    CASE op \in {"create", "write", "read"} -> -3
      [] op = "delete" -> -2
      [] op = "list" -> -1

(* C26: while mounted, a call with an invalid argument returns the         *)
(* operation's code for other errors and leaves the disk image unchanged.  *)
C26_ValidationNeverMutates ==
    [][(is_mounted /\ InvalidCall(last'))
       => (last'.ret = OtherCode(last'.op) /\ disk' = disk)]_vars

(* A negative size refused for a file that exists. *)
C26_Witness ==
    /\ is_mounted /\ last.op = "write" /\ last.ret = -3
    /\ last.size < 0 /\ ~last.flag
    /\ Holds(disk, last.name)

(* C27: the mounted flag is false initially, becomes true only through a   *)
(* mount that returns 0 and false only through unmount; a format executed  *)
(* while unmounted and a failed mount leave it false; and the image        *)
(* changes only in a file operation while mounted or in a format while     *)
(* unmounted.                                                              *)
C27_MountedLifecycle ==
    /\ ~is_mounted
    /\ [][/\ (~is_mounted /\ is_mounted')
               => (last'.op = "mount" /\ last'.ret = 0)
          /\ (is_mounted /\ ~is_mounted') => last'.op = "unmount"
          /\ (~is_mounted /\ last'.op = "format") => ~is_mounted'
          /\ (~is_mounted /\ last'.op = "mount" /\ last'.ret # 0)
               => ~is_mounted'
          /\ (disk' # disk)
               => \/ is_mounted /\ is_mounted'
                       /\ last'.op \in {"create", "write", "delete"}
                  \/ ~is_mounted /\ ~is_mounted' /\ last'.op = "format"]_vars

(* A mount refused on an existing image, with the flag still false. *)
C27_Witness ==
    /\ ~is_mounted /\ exists /\ disk_fd = "closed"
    /\ last.op = "mount" /\ last.ret = -1

(* The blocks the pointers of inode i name. *)
PointedBlocks(d, i) ==
    {d.inodes[i].blocks[j] : j \in {k \in Ptrs : d.inodes[i].blocks[k] # -1}}

(* The next call is a write to the file in slot i that passes the checks   *)
(* made before the allocation loop and yet returns -2: find_free_block     *)
(* found no block inside the loop.                                         *)
LoopFailure(i) ==
    /\ is_mounted /\ last'.op = "write" /\ last'.ret = -2
    /\ i = find_inode(disk, last'.name) /\ i >= 0
    /\ BlocksNeeded(last'.size) <= MAX_DIRECT_BLOCKS
    /\ BlocksNeeded(last'.size)
         <= Min(disk.sb.free_blocks, FreeInBitmap(disk)) + BlocksHeld(disk, i)

(* C28: when a write fails inside the allocation loop, the inode on disk   *)
(* lists, in its first pointers, exactly the blocks whose bits this write  *)
(* set, and -1 in the remaining pointers.                                  *)
C28_PartialFailureBlocks ==
    [][\A i \in Slots : LoopFailure(i)
         => /\ disk'.inodes[i].used
            /\ PointedBlocks(disk', i) =
                 {b \in DataBlocks :
                     /\ disk'.bitmap[b]
                     /\ (~disk.bitmap[b] \/ b \in PointedBlocks(disk, i))}
            /\ Cardinality(PointedBlocks(disk', i)) = BlocksHeld(disk', i)
            /\ BlocksHeld(disk', i) < BlocksNeeded(last'.size)
            /\ \A j \in Ptrs :
                 (disk'.inodes[i].blocks[j] # -1) = (j < BlocksHeld(disk', i))]_vars

(* A write has failed inside the loop: it returned -2 although the counter *)
(* and the blocks the file holds cover the request.                        *)
C28_Witness ==
    /\ is_mounted /\ last.op = "write" /\ last.ret = -2
    /\ last.size <= MaxFileSize
    /\ \E i \in UsedSlots(disk) :
         /\ disk.inodes[i].name = last.name
         /\ BlocksHeld(disk, i) >= 1
         /\ BlocksNeeded(last.size) <= disk.sb.free_blocks + BlocksHeld(disk, i)

(* The blocks inode i holds after the failure carry the first bytes of the *)
(* payload of the write.                                                   *)
HoldsPrefix(d, i, call) ==
    \A j \in Ptrs : d.inodes[i].blocks[j] # -1
       => \A o \in 0..(BLOCK_SIZE - 1) :
            BlockByte(d, d.inodes[i].blocks[j], o)
              = Byte(call.pat, j * BLOCK_SIZE + o)

(* C29 as claimed: after a write of n bytes has failed inside the loop,    *)
(* the file keeps its name and slot, its size on disk is n, and its blocks *)
(* hold a prefix of the payload.                                           *)
C29_PartialFailureSizeRequested ==
    [][\A i \in Slots : LoopFailure(i)
         => /\ disk'.inodes[i].used
            /\ disk'.inodes[i].name = disk.inodes[i].name
            /\ disk'.inodes[i].size = last'.size
            /\ HoldsPrefix(disk', i, last')]_vars

(* C29 as amended: after a write has failed inside the loop, the file      *)
(* keeps its name and slot, its size on disk is the size it had before the *)
(* write, and its blocks hold a prefix of the payload.                     *)
C29_PartialFailureSizeKept ==
    [][\A i \in Slots : LoopFailure(i)
         => /\ disk'.inodes[i].used
            /\ disk'.inodes[i].name = disk.inodes[i].name
            /\ disk'.inodes[i].size = disk.inodes[i].size
            /\ HoldsPrefix(disk', i, last')]_vars

(* After a failed write of more than one block the file of one byte holds  *)
(* a full block of the payload and still has its old size.                 *)
C29_Witness ==
    /\ is_mounted /\ last.op = "write" /\ last.ret = -2
    /\ last.size <= MaxFileSize /\ last.size > BLOCK_SIZE
    /\ \E i \in UsedSlots(disk) :
         /\ disk.inodes[i].name = last.name
         /\ disk.inodes[i].size = 1
         /\ BlocksHeld(disk, i) = 1
         /\ BlocksNeeded(last.size) <= disk.sb.free_blocks + BlocksHeld(disk, i)
         /\ HoldsPrefix(disk, i, last)
         /\ last.pat # 0

(* The data blocks that are free once the file in slot i has released the  *)
(* blocks it holds.                                                        *)
FreeAfterRelease(d, i) ==
    {b \in DataBlocks : ~d.bitmap[b] \/ b \in PointedBlocks(d, i)}

(* C30: a successful write that needs k <= MAX_DIRECT_BLOCKS blocks stores *)
(* in blocks[0..k) the k lowest data blocks that are free once the file's  *)
(* old blocks are released, in strictly increasing order and never a block *)
(* below 10, and leaves the remaining pointers at -1.                      *)
C30_FirstFit ==
    [][\A i \in Slots :
         (/\ is_mounted /\ last'.op = "write" /\ last'.ret = 0
          /\ i = find_inode(disk, last'.name)
          /\ BlocksNeeded(last'.size) <= MAX_DIRECT_BLOCKS)
         => LET k == BlocksNeeded(last'.size)
                new == disk'.inodes[i].blocks
                F == FreeAfterRelease(disk, i)
            IN  /\ \A j \in Ptrs : j >= k => new[j] = -1
                /\ \A j \in Ptrs : j < k => (new[j] \in F /\ new[j] >= 10)
                /\ \A j \in Ptrs : (j + 1 < k) => new[j] < new[j + 1]
                /\ \A b \in F :
                     (\A j \in Ptrs : j < k => new[j] # b)
                     => \A j \in Ptrs : j < k => new[j] < b]_vars

(* A write succeeded while the bit of a block below 10 was clear, and took *)
(* a data block.                                                           *)
C30_Witness ==
    /\ is_mounted /\ last.op = "write" /\ last.ret = 0
    /\ BlocksNeeded(last.size) >= 1
    /\ \E i \in UsedSlots(disk) :
         /\ disk.inodes[i].name = last.name
         /\ disk.inodes[i].blocks[0] >= 10
    /\ \E b \in 2..9 : ~disk.bitmap[b]

(* C31: when find_free_block finds no clear bit inside a write while the   *)
(* superblock on disk has free_blocks > 0, the superblock on disk holds    *)
(* free_blocks = 0 when that write returns.                                *)
C31_AllocatorSelfCorrection ==
    [][\A i \in Slots :
         (/\ LoopFailure(i)
          /\ Min(disk.sb.free_blocks, FreeInBitmap(disk))
               + BlocksHeld(disk, i) > 0)
         => disk'.sb.free_blocks = 0]_vars


(* The number of data blocks whose bit is clear. *)
ClearDataBits(d) == Cardinality({b \in DataBlocks : ~d.bitmap[b]})

(* C32: a write to an existing file with valid arguments and at most       *)
(* MAX_DIRECT_BLOCKS blocks needed first lowers the counter to the number  *)
(* of clear data bits when that number is smaller, and never raises it;    *)
(* the space check uses the lowered value: a write that does not fit it    *)
(* returns -2 and changes nothing but the counter, and a write that        *)
(* returns 0 leaves the lowered value plus the blocks held minus the       *)
(* blocks needed.                                                          *)
C32_WriteTimeReconciliation ==
    [][\A i \in Slots :
         (/\ is_mounted /\ last'.op = "write"
          /\ ~last'.flag /\ last'.size >= 0 /\ NameInRange(last'.name)
          /\ i = find_inode(disk, last'.name) /\ i >= 0
          /\ BlocksNeeded(last'.size) <= MAX_DIRECT_BLOCKS)
         => LET reconciled == Min(disk.sb.free_blocks, ClearDataBits(disk))
                need == BlocksNeeded(last'.size)
            IN  IF need > reconciled + BlocksHeld(disk, i)
                THEN /\ last'.ret = -2
                     /\ disk' = [disk EXCEPT !.sb.free_blocks = reconciled]
                ELSE /\ last'.ret \in {0, -2}
                     /\ last'.ret = 0 =>
                          disk'.sb.free_blocks
                            = reconciled + BlocksHeld(disk, i) - need]_vars

(* A write was refused for lack of space, and the counter equals the       *)
(* bitmap's count, zero, although a set data block has no owner: the       *)
(* counter was lowered from the value the image came with.                 *)
C32_Witness ==
    /\ is_mounted /\ last.op = "write" /\ last.ret = -2
    /\ last.size <= MaxFileSize
    /\ disk.sb.free_blocks = 0 /\ ClearDataBits(disk) = 0
    /\ \E b \in DataBlocks : Owners(disk, b) = {}
    /\ \E i \in Slots : disk.inodes[i].used /\ BlocksHeld(disk, i) = 1


(* C33: a create that returns 0 changes no bitmap bit, no data block and   *)
(* not free_blocks; it takes one inode, lowers free_inodes by one, and the *)
(* new inode has size 0 and every pointer -1; a create of a new valid name *)
(* with a free inode returns 0 also when no data block is free.            *)
C33_CreateAllocatesNoBlock ==
    [][/\ (last'.op = "create" /\ last'.ret = 0)
          => /\ disk'.bitmap = disk.bitmap
             /\ disk'.data = disk.data
             /\ disk'.sb = [disk.sb EXCEPT !.free_inodes = @ - 1]
             /\ \E i \in Slots :
                  /\ ~disk.inodes[i].used
                  /\ disk'.inodes =
                       [disk.inodes EXCEPT ![i] =
                           [used |-> TRUE, name |-> last'.name, size |-> 0,
                            blocks |-> [j \in Ptrs |-> -1]]]
       /\ (/\ is_mounted /\ last'.op = "create" /\ NameInRange(last'.name)
           /\ \A i \in Slots : ~(disk.inodes[i].used
                                  /\ disk.inodes[i].name = last'.name)
           /\ \E i \in Slots : ~disk.inodes[i].used
           /\ ClearDataBits(disk) = 0)
          => last'.ret = 0]_vars

(* A create has succeeded while every data block was taken. *)
C33_Witness ==
    /\ is_mounted /\ last.op = "create" /\ last.ret = 0
    /\ ClearDataBits(disk) = 0 /\ disk.sb.free_blocks = 0


(* C35: whenever the file system is mounted, the bitmap bits of blocks 0   *)
(* to 9 are all set and no used inode holds a block below 10.              *)
C35_ReservedBlocksStayReserved ==
    is_mounted =>
        /\ \A b \in 0..9 : disk.bitmap[b]
        /\ \A i \in Slots : \A j \in Ptrs :
             disk.inodes[i].used /\ disk.inodes[i].blocks[j] # -1
               => disk.inodes[i].blocks[j] >= 10

(* A delete has released the blocks of one file while another file holds   *)
(* a block. *)
C35_Witness ==
    /\ is_mounted /\ last.op = "delete" /\ last.ret = 0
    /\ ClearDataBits(disk) > 0
    /\ \E i \in Slots : disk.inodes[i].used /\ BlocksHeld(disk, i) > 0


(* C36: a write or a delete, whatever it returns, leaves every inode other *)
(* than the one it found under its name as it was (used flag, name, size   *)
(* and block list), and leaves the bytes of every other file as they were. *)
C36_FrameOfWriteAndDelete ==
    [][(is_mounted /\ last'.op \in {"write", "delete"})
       => \A g \in Slots :
            g # find_inode(disk, last'.name)
            => /\ disk'.inodes[g] = disk.inodes[g]
               /\ disk.inodes[g].used
                    => FileContent(disk', g) = FileContent(disk, g)]_vars

(* A write has stored a file in block 11 or beyond while another file      *)
(* holds data in block 10; or the reverse.                                 *)
C36_Witness ==
    /\ is_mounted /\ last.op = "write" /\ last.ret = 0 /\ last.size > 0
    /\ \E f \in Slots : \E g \in Slots \ {f} :
         /\ disk.inodes[f].used /\ disk.inodes[f].name = last.name
         /\ disk.inodes[f].size = last.size
         /\ disk.inodes[g].used /\ disk.inodes[g].size > 0
         /\ BlocksHeld(disk, g) > 0


(* C37: a write that returns -2 has changed nothing on disk, and it needed *)
(* more than MAX_DIRECT_BLOCKS blocks or more blocks than free_blocks plus *)
(* the blocks the file holds; so the file reads as it did before.          *)
C37_LoopNeverRunsOut ==
    [][(is_mounted /\ last'.op = "write" /\ last'.ret = -2)
       => /\ disk' = disk
          /\ \E i \in Slots :
               /\ i = find_inode(disk, last'.name)
               /\ \/ BlocksNeeded(last'.size) > MAX_DIRECT_BLOCKS
                  \/ BlocksNeeded(last'.size)
                       > disk.sb.free_blocks + BlocksHeld(disk, i)]_vars

(* A write that fits MAX_DIRECT_BLOCKS was refused for lack of space while *)
(* its file holds a block and has content.                                 *)
C37_Witness ==
    /\ is_mounted /\ last.op = "write" /\ last.ret = -2
    /\ BlocksNeeded(last.size) <= MAX_DIRECT_BLOCKS
    /\ \E i \in Slots :
         /\ i = find_inode(disk, last.name)
         /\ disk.inodes[i].size > 0 /\ BlocksHeld(disk, i) > 0


(* The image after a delete of the name of every inode that is used in d0, *)
(* in slot order, and whether every one of the deletes returned 0.         *)
RECURSIVE DeleteAllFrom(_, _, _)
DeleteAllFrom(d0, cur, i) ==
    IF i >= MAX_FILES THEN [disk |-> cur, ok |-> TRUE]
    ELSE IF ~d0.inodes[i].used THEN DeleteAllFrom(d0, cur, i + 1)
    ELSE LET r == Delete(cur, d0.inodes[i].name)
             rest == DeleteAllFrom(d0, r.disk, i + 1)
         IN  [disk |-> rest.disk, ok |-> (r.ret = 0) /\ rest.ok]

(* C38: in every mounted state, a delete of every file that exists, under  *)
(* the name it was created with, returns 0 each time and leaves            *)
(* free_blocks = MAX_BLOCKS - 10, free_inodes = MAX_FILES, no data bit set *)
(* and an empty list.                                                      *)
C38_SpaceReclaimable ==
    is_mounted =>
        LET r == DeleteAllFrom(disk, disk, 0)
        IN  /\ r.ok
            /\ r.disk.sb.free_blocks = MAX_BLOCKS - 10
            /\ r.disk.sb.free_inodes = MAX_FILES
            /\ \A b \in DataBlocks : ~r.disk.bitmap[b]
            /\ List(r.disk, FALSE, MAX_FILES).ret = 0


(* A byte of a data block is part of a file when a used inode holds the    *)
(* block in pointer j and the byte lies within the first size bytes.       *)
PartOfAFile(d, b, o) ==
    \E i \in Slots : \E j \in Ptrs :
        /\ d.inodes[i].used /\ d.inodes[i].blocks[j] = b
        /\ j * BLOCK_SIZE + o < d.inodes[i].size

(* The image with every byte that is part of no file replaced: two images  *)
(* agree on the metadata and on the bytes of every file, and differ only   *)
(* in free blocks and beyond the sizes, exactly when Scrub makes them      *)
(* equal.                                                                  *)
Scrub(d) ==
    [d EXCEPT !.data =
        [b \in DataBlocks |-> [o \in 0..(BLOCK_SIZE - 1) |->
            IF PartOfAFile(d, b, o) THEN d.data[b][o] ELSE -3]]]

(* Two outcomes with the same return value and buffer, whose images are   *)
(* equal once scrubbed: the same metadata, and the same bytes in files.    *)
SameOutcome(r1, r2) ==
    /\ r1.ret = r2.ret /\ r1.out = r2.out
    /\ r1.disk.sb = r2.disk.sb /\ r1.disk.bitmap = r2.disk.bitmap
    /\ r1.disk.inodes = r2.disk.inodes
    /\ \A b \in DataBlocks : \A o \in 0..(BLOCK_SIZE - 1) :
         PartOfAFile(r1.disk, b, o) => r1.disk.data[b][o] = r2.disk.data[b][o]

(* C39: in every mounted state, every call the callers make gives on the   *)
(* image and on the image with the bytes outside the files replaced the    *)
(* same return value and the same buffer, and images that again differ     *)
(* only in such bytes.  Two reachable images that differ only in such      *)
(* bytes therefore give the same values and buffers for every sequence of  *)
(* calls; format, mount and unmount neither read nor write a data block.   *)
C39_NoStaleData ==
    is_mounted =>
        LET s == Scrub(disk)
        IN  /\ \A n \in TwoNames :
                 /\ SameOutcome(Create(disk, n), Create(s, n))
                 /\ SameOutcome(Delete(disk, n), Delete(s, n))
            /\ \A a \in TwoWriteArgs : \A nb \in NumBlocksOutcomes(a[3]) :
                 SameOutcome(Write(disk, a[1], a[2], a[3], a[4], nb),
                             Write(s, a[1], a[2], a[3], a[4], nb))
            /\ \A n \in TwoNames :
                 SameOutcome(Read(disk, n, FALSE, BLOCK_SIZE + 1),
                             Read(s, n, FALSE, BLOCK_SIZE + 1))
            /\ SameOutcome(List(disk, FALSE, MAX_FILES),
                           List(s, FALSE, MAX_FILES))

(* A read of more bytes than the file has returned one byte, while the     *)
(* block of the file still holds, beyond that byte, a byte of an earlier   *)
(* and longer file.                                                        *)
C39_Witness ==
    /\ is_mounted /\ last.op = "read" /\ last.ret = 1 /\ last.size > 1
    /\ \E i \in Slots :
         /\ i = find_inode(disk, last.name)
         /\ disk.inodes[i].size = 1
         /\ disk.inodes[i].blocks[0] \in DataBlocks
         /\ disk.data[disk.inodes[i].blocks[0]][1] # 0


CrashOps == {"crash_write_free", "crash_write_alloc", "crash_delete"}

(* A used inode points to a data block whose bit is clear. *)
PointerToFreeBlock(d) ==
    \E i \in Slots : \E j \in Ptrs :
        /\ d.inodes[i].used /\ d.inodes[i].blocks[j] \in DataBlocks
        /\ ~d.bitmap[d.inodes[i].blocks[j]]

(* A data block whose bit is set belongs to no file. *)
BlockWithoutOwner(d) ==
    \E b \in DataBlocks : d.bitmap[b] /\ Owners(d, b) = {}

(* C34: the image left when the process ends inside write or delete after  *)
(* a bitmap write and before the inode write has the inode table of before *)
(* the call; after a mark_block_free it has a used inode that points to a  *)
(* block whose bit is clear; and the mount that follows returns 0.         *)
C34_CrashWindow ==
    [][/\ last'.op \in CrashOps => disk'.inodes = disk.inodes
       /\ last'.op \in {"crash_write_free", "crash_delete"}
            => PointerToFreeBlock(disk')
       /\ (last.op \in CrashOps /\ last'.op = "mount")
            => (last'.ret = 0 /\ is_mounted')]_vars

(* A mount has accepted an image in which a used inode points to a block   *)
(* whose bit is clear, or in which a set block has no owner.               *)
C34_Witness ==
    /\ is_mounted /\ last.op = "mount" /\ last.ret = 0
    /\ PointerToFreeBlock(disk) \/ BlockWithoutOwner(disk)

=============================================================================
